---------------------------- MODULE Spec2Model ----------------------------
(***************************************************************************)
(* Model of src/app.py, the "Nutrition Analyzer" Streamlit page.           *)
(*                                                                         *)
(* A Streamlit script is re-executed from top to bottom on every user      *)
(* event.  The model keeps what survives a rerun (the st.cache_resource    *)
(* entries, st.session_state, the widgets' values) and what one rerun      *)
(* computes (the module globals, the messages shown, the calls made), and  *)
(* walks one rerun in the order of the script: module-level                *)
(* initialization, main()'s widgets and image display, the submit          *)
(* handler's checks, the Gemini pathway, the custom-model pathway.         *)
(*                                                                         *)
(* Python strings are TLA+ strings; Python's None is the string "None"     *)
(* where the value is otherwise a string, and a record with kind "None"    *)
(* where it is otherwise a dict.                                           *)
(***************************************************************************)
EXTENDS Integers, Sequences, FiniteSets, TLC

VARIABLES
  now,              \* wall clock, in seconds since the process started
  gemini_cache,     \* st.cache_resource entry of initialize_gemini
  custom_cache,     \* st.cache_resource entry of load_custom_model
  gemini_inits,     \* number of executions of initialize_gemini's body
  custom_inits,     \* number of executions of load_custom_model's body
  initialized,      \* st.session_state.initialized
  stored_file,      \* st.session_state.uploaded_file
  uploader,         \* value of the file_uploader widget
  use_gemini,       \* value of the "Use Gemini API" checkbox
  use_custom,       \* value of the "Use Custom Model" checkbox
  submit,           \* value of the "Scan the Food(s)" button in this rerun
  pc,               \* position of the current rerun in the script
  gemini_model,     \* module global gemini_model of the current rerun
  custom_model,     \* module global custom_model of the current rerun
  nutrition_data,   \* module global nutrition_data of the current rerun
  errors,           \* st.error messages shown by the current rerun
  calls,            \* functions invoked by the current rerun's submit handler
  image_data,       \* file wrapped by input_image_details in this rerun
  custom_image,     \* file opened for get_custom_model_response in this rerun
  gemini_response,  \* result of get_gemini_response in this rerun
  prediction,       \* outcome of custom_model.predict in this rerun
  max_index,        \* local max_index of get_custom_model_response
  json_class_name,  \* local json_class_name of get_custom_model_response
  custom_response,  \* result of get_custom_model_response in this rerun
  status            \* text of the status_text placeholder

vars ==
  << now, gemini_cache, custom_cache, gemini_inits, custom_inits, initialized,
     stored_file, uploader, use_gemini, use_custom, submit, pc, gemini_model,
     custom_model, nutrition_data, errors, calls, image_data, custom_image,
     gemini_response, prediction, max_index, json_class_name, custom_response,
     status >>

-----------------------------------------------------------------------------
(* Bounds of the model.                                                    *)

\* Largest activation the classifier mock puts in a prediction vector.
MaxScore == 2

\* Largest distance between the two distinguished positions of a vector.
MaxGap == 2

\* Largest number of records in an enumerated nutrition table.
MaxRecords == 2

\* Seconds by which one Tick advances the clock.
TickSeconds == 1800

\* The clock stops advancing here.
MaxNow == 7200

-----------------------------------------------------------------------------
(* Python's str methods used by the script.                                *)

Lowercase == "abcdefghijklmnopqrstuvwxyz"

Uppercase == "ABCDEFGHIJKLMNOPQRSTUVWXYZ"

Char(s, i) == SubSeq(s, i, i)

IsLower(c) == \E i \in 1..Len(Lowercase) : Char(Lowercase, i) = c

IsUpper(c) == \E i \in 1..Len(Uppercase) : Char(Uppercase, i) = c

IsCased(c) == IsLower(c) \/ IsUpper(c)

ToUpper(c) ==
  IF IsLower(c)
    THEN Char(Uppercase, CHOOSE i \in 1..Len(Lowercase) : Char(Lowercase, i) = c)
    ELSE c

ToLower(c) ==
  IF IsUpper(c)
    THEN Char(Lowercase, CHOOSE i \in 1..Len(Uppercase) : Char(Uppercase, i) = c)
    ELSE c

\* str.isspace for the characters that occur in the model's strings.
IsSpace(c) == c \in {" ", "\t", "\n"}

\* s.replace(old, new) for a one-character old.
RECURSIVE Replace(_, _, _)
Replace(s, old, new) ==
  IF s = ""
    THEN ""
    ELSE (IF Head(s) = old THEN new ELSE Head(s)) \o Replace(Tail(s), old, new)

\* s.title(): a cased character is uppercased when the character before it
\* is uncased (or there is none) and lowercased otherwise.
RECURSIVE TitleFrom(_, _)
TitleFrom(s, prevCased) ==
  IF s = ""
    THEN ""
    ELSE LET c == Head(s)
         IN  (IF IsCased(c)
                THEN (IF prevCased THEN ToLower(c) ELSE ToUpper(c))
                ELSE c) \o TitleFrom(Tail(s), IsCased(c))

\* s.lower().
RECURSIVE Lower(_)
Lower(s) == IF s = "" THEN "" ELSE ToLower(Head(s)) \o Lower(Tail(s))

\* s.capitalize(): the first character uppercased, the rest lowercased.
Capitalize(s) ==
  IF s = "" THEN "" ELSE ToUpper(Head(s)) \o Lower(Tail(s))

Title(s) == TitleFrom(s, FALSE)

\* s.split(): the maximal runs of non-whitespace characters, in order.
RECURSIVE SplitFrom(_, _, _)
SplitFrom(s, word, acc) ==
  IF s = ""
    THEN (IF word = "" THEN acc ELSE Append(acc, word))
    ELSE IF IsSpace(Head(s))
      THEN SplitFrom(Tail(s), "", IF word = "" THEN acc ELSE Append(acc, word))
      ELSE SplitFrom(Tail(s), word \o Head(s), acc)

Split(s) == SplitFrom(s, "", << >>)

-----------------------------------------------------------------------------
(* get_custom_model_response.                                              *)

\* The food classes, in the order of the classifier's output vector.
classes ==
  <<
    "apple_pie", "baby_back_ribs", "baklava", "beef_carpaccio",
    "beef_tartare", "beet_salad", "beignets", "bibimbap", "bread_pudding",
    "breakfast_burrito", "bruschetta", "caesar_salad", "cannoli",
    "caprese_salad", "carrot_cake", "ceviche", "cheesecake", "cheese_plate",
    "chicken_curry", "chicken_quesadilla", "chicken_wings", "chocolate_cake",
    "chocolate_mousse", "churros", "clam_chowder", "club_sandwich",
    "crab_cakes", "creme_brulee", "croque_madame", "cup_cakes",
    "deviled_eggs", "donuts", "dumplings", "edamame", "eggs_benedict",
    "escargots", "falafel", "filet_mignon", "fish_and_chips", "foie_gras",
    "french_fries", "french_onion_soup", "french_toast", "fried_calamari",
    "fried_rice", "frozen_yogurt", "garlic_bread", "gnocchi", "greek_salad",
    "grilled_cheese_sandwich", "grilled_salmon", "guacamole", "gyoza",
    "hamburger", "hot_and_sour_soup", "hot_dog", "huevos_rancheros",
    "hummus", "ice_cream", "lasagna", "lobster_bisque",
    "lobster_roll_sandwich", "macaroni_and_cheese", "macarons", "miso_soup",
    "mussels", "nachos", "omelette", "onion_rings", "oysters", "pad_thai",
    "paella", "pancakes", "panna_cotta", "peking_duck", "pho", "pizza",
    "pork_chop", "poutine", "prime_rib", "pulled_pork_sandwich", "ramen",
    "ravioli", "red_velvet_cake", "risotto", "samosa", "sashimi", "scallops",
    "seaweed_salad", "shrimp_and_grits", "spaghetti_bolognese",
    "spaghetti_carbonara", "spring_rolls", "steak", "strawberry_shortcake",
    "sushi", "tacos", "takoyaki", "tiramisu", "tuna_tartare", "waffles"
  >>


\* The 0-based position of label in classes.
ClassIndex(label) == (CHOOSE i \in 1..Len(classes) : classes[i] = label) - 1

\* numpy argmax with >= in place of >: the last maximum instead of the first.
RECURSIVE ArgMaxLastIn(_, _, _)
ArgMaxLastIn(v, lo, hi) ==
  IF lo = hi
    THEN lo
    ELSE LET mid == (lo + hi) \div 2
             left == ArgMaxLastIn(v, lo, mid)
             right == ArgMaxLastIn(v, mid + 1, hi)
         IN  IF v[right] >= v[left] THEN right ELSE left

ArgMaxLast(v) == ArgMaxLastIn(v, 1, Len(v)) - 1

\* numpy's argmax over a non-empty vector: the best position changes only
\* for a strictly larger element met later in the vector.  ArgMaxIn(v, lo,
\* hi) is the best position (1-based) among lo..hi, the range being halved
\* to keep the evaluation shallow; the result is 0-based.
RECURSIVE ArgMaxIn(_, _, _)
ArgMaxIn(v, lo, hi) ==
  IF lo = hi
    THEN lo
    ELSE LET mid == (lo + hi) \div 2
             left == ArgMaxIn(v, lo, mid)
             right == ArgMaxIn(v, mid + 1, hi)
         IN  IF v[right] > v[left] THEN right ELSE left

ArgMax(v) == ArgMaxIn(v, 1, Len(v)) - 1

\* predicted_class.replace('_', ' ').title() for classes[max_index].
DisplayName(label) == Title(Replace(label, "_", " "))

JsonClassName(index) == DisplayName(classes[index + 1])

NoRecord == [kind |-> "None"]

\* A lookup that ignores letter case.
RECURSIVE FindRecordAnyCase(_, _)
FindRecordAnyCase(items, name) ==
  IF items = << >>
    THEN NoRecord
    ELSE IF Title(Head(items).name) = Title(name)
      THEN Head(items)
      ELSE FindRecordAnyCase(Tail(items), name)

\* next((item for item in nutrition_data if item["name"] == name), None)
RECURSIVE FindRecord(_, _)
FindRecord(items, name) ==
  IF items = << >>
    THEN NoRecord
    ELSE IF Head(items).name = name
      THEN Head(items)
      ELSE FindRecord(Tail(items), name)

HasToken(s) == Len(Split(s)) > 0

\* s.split()[0]
FirstToken(s) == Split(s)[1]

\* s.split()[0] where the last token is meant.
LastTokenAsFirst(s) == Split(s)[1]

\* s.split()[-1]
LastToken(s) == Split(s)[Len(Split(s))]

DailyValueFields ==
  {"totalFat", "saturatedFat", "sodium", "totalCarbohydrates", "protein"}

\* The dict built for a record that was found.
ShapeResult(name, nutrition) ==
  LET dv == nutrition.dailyValue
  IN  [kind |-> "result",
       predicted_food |-> name,
       nutrition |->
            ("Total Fat" :> LastToken(dv.totalFat))
         @@ ("Saturated Fat" :> LastToken(dv.saturatedFat))
         @@ ("Sodium" :> LastToken(dv.sodium))
         @@ ("Carbohydrates" :> LastToken(dv.totalCarbohydrates))
         @@ ("Protein" :> FirstToken(dv.protein) \o "g")]

NotFoundResponse ==
  [kind |-> "error", error |-> "Nutrition data not found for this dish"]

NoneResponse == [kind |-> "None"]

UnsetResponse == [kind |-> "unset"]

\* Whether looking up and shaping raises for the class at index: the index
\* is outside classes, nutrition_data cannot be iterated, or a display
\* string of the record found has no token to index.
LookupRaises(index, data) ==
  \/ index + 1 > Len(classes)
  \/ data.none
  \/ LET found == FindRecord(data.items, JsonClassName(index))
     IN  /\ found # NoRecord
         /\ \E f \in DailyValueFields : ~HasToken(found.dailyValue[f])

\* Lines 117-140: what the function returns once the classifier has
\* answered with the maximum at index.
ResponseFor(index, data) ==
  IF LookupRaises(index, data)
    THEN NoneResponse
    ELSE LET found == FindRecord(data.items, JsonClassName(index))
         IN  IF found # NoRecord
               THEN ShapeResult(JsonClassName(index), found)
               ELSE NotFoundResponse

\* get_custom_model_response: its locals max_index and json_class_name as
\* the call leaves them, and the value it returns.  An exception anywhere
\* in the try block is caught and None returned.
GetCustomModelResponse(pred, data) ==
  IF pred.raises
    THEN [max_index |-> 0 - 1, json_class_name |-> "",
          response |-> NoneResponse]
    ELSE LET index == ArgMax(pred.linear_510)
         IN  [max_index |-> index,
              json_class_name |-> IF index + 1 > Len(classes)
                                    THEN ""
                                    ELSE JsonClassName(index),
              response |-> ResponseFor(index, data)]

CustomModelError == "Error analyzing image with custom model"

-----------------------------------------------------------------------------
(* Inputs: classifier outputs and contents of model/list.json.             *)

NoneData == [none |-> TRUE, items |-> << >>]

SomeData(items) == [none |-> FALSE, items |-> items]

Scores == (0 - 1)..MaxScore

Min(a, b) == IF a < b THEN a ELSE b

\* A prediction vector: a at position p, b at position q, 0 elsewhere.
Vec(p, q, a, b) ==
  [i \in 1..Len(classes) |-> IF i = p THEN a ELSE IF i = q THEN b ELSE 0]

Predicted(v) == [raises |-> FALSE, linear_510 |-> v]

PredictRaises == [raises |-> TRUE, linear_510 |-> << >>]

UnsetPrediction == [raises |-> FALSE, linear_510 |-> << >>]

\* Vectors with at most two non-zero entries, at most MaxGap apart.
Predictions ==
  { Predicted(Vec(p, Min(p + d, Len(classes)), a, b)) :
      p \in 1..Len(classes), d \in 0..MaxGap, a \in Scores, b \in Scores }

FewPredictions ==
  { Predicted(Vec(ClassIndex("apple_pie") + 1, ClassIndex("pizza") + 1, a, b)) :
      a \in 0..1, b \in 0..1 } \cup {PredictRaises}

DailyValues ==
  { [totalFat |-> "12 g 18%", saturatedFat |-> "5 g 25%",
     sodium |-> "480 mg 20%", totalCarbohydrates |-> "36 g 12%",
     protein |-> "25 g"],
    [totalFat |-> "5%", saturatedFat |-> "0 g 0%",
     sodium |-> "95 mg 4% ", totalCarbohydrates |-> " 58 g  19%",
     protein |-> "3 g"],
    [totalFat |-> "1%", saturatedFat |-> "2%",
     sodium |-> "3%", totalCarbohydrates |-> "4%",
     protein |-> "7g"] }

TableNames == {"Pizza", "Apple Pie", "pizza", "Apple  Pie"}

NutritionRecords == [name : TableNames, dailyValue : DailyValues]

NutritionTables ==
  UNION { [1..n -> NutritionRecords] : n \in 0..MaxRecords }

\* Two contents of model/list.json for the runs of the whole page.
TableFiles ==
  { << [name |-> "Pizza",
        dailyValue |-> [totalFat |-> "12 g 18%", saturatedFat |-> "5 g 25%",
                        sodium |-> "480 mg 20%",
                        totalCarbohydrates |-> "36 g 12%", protein |-> "25 g"]]
    >>,
    << [name |-> "apple pie",
        dailyValue |-> [totalFat |-> "5%", saturatedFat |-> "0 g 0%",
                        sodium |-> "95 mg 4% ",
                        totalCarbohydrates |-> " 58 g  19%", protein |-> "3 g"]]
    >> }

-----------------------------------------------------------------------------
(* The page: caches, session state, widgets.                               *)

\* @st.cache_resource(ttl=3600) on initialize_gemini
GeminiTtl == 3600

\* @st.cache_resource(ttl=3600) on load_custom_model
CustomTtl == 3600

\* Uploads that Image.open accepts, and one it rejects.
GoodFiles == {"meal.jpg", "dish.png"}

BadFiles == {"notes.png"}

Files == GoodFiles \cup BadFiles

OpensAsImage(f) == f \in GoodFiles

NoEntry(v) == [present |-> FALSE, at |-> 0, value |-> v]

Entry(v) == [present |-> TRUE, at |-> now, value |-> v]

NoHandles == [model |-> "None", data |-> NoneData]

\* What initialize_gemini's body can return.
GeminiOutcomes == {"GenerativeModel", "None"}

\* What load_custom_model's body can return: (model, nutrition_data) or
\* (None, None).
LoadOutcomes ==
  { [model |-> "MLModel", data |-> SomeData(t)] : t \in TableFiles }
    \cup {NoHandles}

\* A cache that never holds an entry.
EntryNeverValid(entry, ttl) == FALSE

\* Whether st.cache_resource returns the stored value instead of running
\* the function: an entry exists and is younger than its ttl.
EntryValid(entry, ttl) == entry.present /\ now - entry.at < ttl

\* The guard before st.stop() without its second operand.
InitFailedGeminiOnly(gm, cm) == gm = "None"

\* gemini_model is None or custom_model is None
InitFailed(gm, cm) == gm = "None" \/ cm = "None"

NoImageError == "Please upload an image first"

NoMethodError == "Please select at least one analysis method"

LoadImageError == "Error loading image"

GeminiError == "Error analyzing image with Gemini"

\* session_state.uploaded_file overwritten by the widget's value on every
\* rerun.
StoredAfterWidgetAlways(stored, widget) == widget

\* session_state.uploaded_file after "if 'uploaded_file' not in ..." and
\* "if uploaded_file is not None: ...".
StoredAfterWidget(stored, widget) ==
  IF widget # "None"
    THEN widget
    ELSE IF stored = "unset" THEN "None" ELSE stored

\* The two checks of the submit handler in the opposite order.
ValidateMethodFirst(stored, gemini, custom) ==
  IF ~(gemini \/ custom)
    THEN NoMethodError
    ELSE IF stored = "None" THEN NoImageError ELSE ""

\* The submit handler's two checks: the message of the st.error before the
\* return, or "" when the handler goes on.
Validate(stored, gemini, custom) ==
  IF stored = "None"
    THEN NoImageError
    ELSE IF ~(gemini \/ custom) THEN NoMethodError ELSE ""

\* A get_gemini_response that lets the exception out, into main's except.
AfterGeminiUncaught(outcome, custom) ==
  IF outcome = "raise"
    THEN [response |-> "None", errors |-> {"An error occurred"},
          pc |-> "idle", status |-> "Analyzing with Gemini..."]
    ELSE [response |-> outcome, errors |-> {},
          pc |-> IF custom THEN "custom" ELSE "idle",
          status |-> IF custom THEN "Analyzing with Gemini..."
                               ELSE "Analysis complete!"]

\* get_gemini_response and what follows it in main: the exception is caught
\* in the function, which returns None, and main goes on.
AfterGemini(outcome, custom) ==
  [response |-> IF outcome = "raise" THEN "None" ELSE outcome,
   errors |-> IF outcome = "raise" THEN {GeminiError} ELSE {},
   pc |-> IF custom THEN "custom" ELSE "idle",
   status |-> IF custom THEN "Analyzing with Gemini..."
                        ELSE "Analysis complete!"]

\* What the custom pathway shows with st.error for a response.
CustomErrors(response) ==
  IF response.kind = "None"
    THEN {CustomModelError}
    ELSE IF response.kind = "error" THEN {response.error} ELSE {}

Waiting == pc \in {"idle", "stopped"}

\* st.checkbox("Use Gemini API", value=True)
GeminiCheckboxDefault == TRUE

\* st.checkbox("Use Custom Model", value=False)
CustomCheckboxDefault == FALSE

cacheVars == << gemini_cache, custom_cache, gemini_inits, custom_inits >>

sessionVars == << initialized, stored_file >>

widgetVars == << uploader, use_gemini, use_custom >>

globalVars == << gemini_model, custom_model, nutrition_data >>

pipelineVars == << prediction, max_index, json_class_name, custom_response >>

\* The values a rerun starts from: nothing shown, nothing called, the module
\* globals not yet bound.
FreshRun(clicked) ==
  /\ pc' = "init"
  /\ submit' = clicked
  /\ gemini_model' = "None"
  /\ custom_model' = "None"
  /\ nutrition_data' = NoneData
  /\ errors' = {}
  /\ calls' = {}
  /\ image_data' = "None"
  /\ custom_image' = "None"
  /\ gemini_response' = "None"
  /\ prediction' = UnsetPrediction
  /\ max_index' = 0 - 1
  /\ json_class_name' = ""
  /\ custom_response' = UnsetResponse
  /\ status' = ""

-----------------------------------------------------------------------------------------------------------------------------------------------------
(* User events; each one starts a rerun of the script.  The widgets are    *)
(* created in main(), so they are on the page only after a rerun that      *)
(* reached main().                                                         *)

UploadFile ==
  /\ pc = "idle"
  /\ \E f \in Files : f # uploader /\ uploader' = f
  /\ FreshRun(FALSE)
  /\ UNCHANGED << now, cacheVars, sessionVars, use_gemini, use_custom >>

RemoveFile ==
  /\ pc = "idle"
  /\ uploader # "None"
  /\ uploader' = "None"
  /\ FreshRun(FALSE)
  /\ UNCHANGED << now, cacheVars, sessionVars, use_gemini, use_custom >>

ToggleGemini ==
  /\ pc = "idle"
  /\ use_gemini' = ~use_gemini
  /\ FreshRun(FALSE)
  /\ UNCHANGED << now, cacheVars, sessionVars, uploader, use_custom >>

ToggleCustom ==
  /\ pc = "idle"
  /\ use_custom' = ~use_custom
  /\ FreshRun(FALSE)
  /\ UNCHANGED << now, cacheVars, sessionVars, uploader, use_gemini >>

ClickScan ==
  /\ pc = "idle"
  /\ FreshRun(TRUE)
  /\ UNCHANGED << now, cacheVars, sessionVars, widgetVars >>

\* The user reruns the page as it is.
Rerun ==
  /\ Waiting
  /\ FreshRun(FALSE)
  /\ UNCHANGED << now, cacheVars, sessionVars, widgetVars >>

\* Time passes between reruns.
Tick ==
  /\ Waiting
  /\ now + TickSeconds <= MaxNow
  /\ now' = now + TickSeconds
  /\ UNCHANGED << cacheVars, sessionVars, widgetVars, submit, pc, globalVars,
                  errors, calls, image_data, custom_image, gemini_response,
                  pipelineVars, status >>

-----------------------------------------------------------------------------
(* One rerun of the script.                                                *)

\* Lines 19-63: the two cached loaders, the st.stop() guard, the flag.  A
\* rerun stopped by st.stop() creates no widget, and Streamlit forgets the
\* value of a widget that a rerun did not create.
Initialize ==
  /\ pc = "init"
  /\ \E gres \in GeminiOutcomes, cres \in LoadOutcomes :
       LET ghit == EntryValid(gemini_cache, GeminiTtl)
           chit == EntryValid(custom_cache, CustomTtl)
           gval == IF ghit THEN gemini_cache.value ELSE gres
           cval == IF chit THEN custom_cache.value ELSE cres
           failed == InitFailed(gval, cval.model)
       IN  /\ gemini_cache' = IF ghit THEN gemini_cache ELSE Entry(gres)
           /\ custom_cache' = IF chit THEN custom_cache ELSE Entry(cres)
           /\ gemini_inits' = IF ghit THEN gemini_inits ELSE gemini_inits + 1
           /\ custom_inits' = IF chit THEN custom_inits ELSE custom_inits + 1
           /\ gemini_model' = gval
           /\ custom_model' = cval.model
           /\ nutrition_data' = cval.data
           /\ errors' = errors
                \cup (IF gval = "None" THEN {"Failed to initialize Gemini"} ELSE {})
                \cup (IF cval.model = "None" THEN {"Failed to load custom model"} ELSE {})
                \cup (IF failed THEN {"Failed to initialize required models"} ELSE {})
           /\ initialized' = IF failed
                               THEN (IF initialized = "unset" THEN "False" ELSE initialized)
                               ELSE "True"
           /\ pc' = IF failed THEN "stopped" ELSE "main"
           /\ uploader' = IF failed THEN "None" ELSE uploader
           /\ use_gemini' = IF failed THEN GeminiCheckboxDefault ELSE use_gemini
           /\ use_custom' = IF failed THEN CustomCheckboxDefault ELSE use_custom
  /\ UNCHANGED << now, stored_file, submit, calls, image_data, custom_image,
                  gemini_response, pipelineVars, status >>

\* Lines 163-200: the widgets, the stored file, the image display.
RenderMain ==
  /\ pc = "main"
  /\ LET kept == StoredAfterWidget(stored_file, uploader)
         opens == kept = "None" \/ OpensAsImage(kept)
     IN  /\ stored_file' = IF opens THEN kept ELSE "None"
         /\ errors' = IF opens THEN errors ELSE errors \cup {LoadImageError}
  /\ pc' = IF submit THEN "submit" ELSE "idle"
  /\ UNCHANGED << now, cacheVars, initialized, widgetVars, submit, globalVars,
                  calls, image_data, custom_image, gemini_response,
                  pipelineVars, status >>

\* Lines 202-222: the two checks, then input_image_details.
CheckSubmit ==
  /\ pc = "submit"
  /\ LET refusal == Validate(stored_file, use_gemini, use_custom)
     IN  IF refusal # ""
           THEN /\ errors' = errors \cup {refusal}
                /\ pc' = "idle"
                /\ UNCHANGED << calls, image_data, status >>
           ELSE /\ calls' = calls \cup {"input_image_details"}
                /\ image_data' = stored_file
                /\ status' = "Processing image..."
                /\ pc' = IF use_gemini THEN "gemini" ELSE "custom"
                /\ UNCHANGED errors
  /\ UNCHANGED << now, cacheVars, sessionVars, widgetVars, submit, globalVars,
                  custom_image, gemini_response, pipelineVars >>

\* Lines 225-232 and 78-84, and lines 256-257 when the custom model is off.
GeminiPathway ==
  /\ pc = "gemini"
  /\ \E outcome \in {"text", "raise"} :
       LET after == AfterGemini(outcome, use_custom)
       IN  /\ calls' = calls \cup {"get_gemini_response"}
           /\ gemini_response' = after.response
           /\ errors' = errors \cup after.errors
           /\ status' = after.status
           /\ pc' = after.pc
  /\ UNCHANGED << now, cacheVars, sessionVars, widgetVars, submit, globalVars,
                  image_data, custom_image, pipelineVars >>

\* Lines 234-257 and 86-144.
CustomPathway ==
  /\ pc = "custom"
  /\ \E pred \in FewPredictions :
       \E result \in {GetCustomModelResponse(pred, nutrition_data)} :
           /\ prediction' = pred
           /\ max_index' = result.max_index
           /\ json_class_name' = result.json_class_name
           /\ custom_response' = result.response
           /\ errors' = errors \cup CustomErrors(result.response)
  /\ calls' = calls \cup {"get_custom_model_response"}
  /\ custom_image' = stored_file
  /\ status' = "Analysis complete!"
  /\ pc' = "idle"
  /\ UNCHANGED << now, cacheVars, sessionVars, widgetVars, submit, globalVars,
                  image_data, gemini_response >>

Init ==
  /\ now = 0
  /\ gemini_cache = NoEntry("None")
  /\ custom_cache = NoEntry(NoHandles)
  /\ gemini_inits = 0
  /\ custom_inits = 0
  /\ initialized = "unset"
  /\ stored_file = "unset"
  /\ uploader = "None"
  /\ use_gemini = GeminiCheckboxDefault
  /\ use_custom = CustomCheckboxDefault
  /\ submit = FALSE
  /\ pc = "init"
  /\ gemini_model = "None"
  /\ custom_model = "None"
  /\ nutrition_data = NoneData
  /\ errors = {}
  /\ calls = {}
  /\ image_data = "None"
  /\ custom_image = "None"
  /\ gemini_response = "None"
  /\ prediction = UnsetPrediction
  /\ max_index = 0 - 1
  /\ json_class_name = ""
  /\ custom_response = UnsetResponse
  /\ status = ""

Next ==
  \/ UploadFile
  \/ RemoveFile
  \/ ToggleGemini
  \/ ToggleCustom
  \/ ClickScan
  \/ Rerun
  \/ Tick
  \/ Initialize
  \/ RenderMain
  \/ CheckSubmit
  \/ GeminiPathway
  \/ CustomPathway

Spec == Init /\ [][Next]_vars

-----------------------------------------------------------------------------
(* get_custom_model_response on its own, over wider inputs.                *)

\* One call of get_custom_model_response on the prediction the classifier
\* returned and the table that was loaded.
CallCustomModel ==
  /\ pc = "call"
  /\ \E result \in {GetCustomModelResponse(prediction, nutrition_data)} :
         /\ max_index' = result.max_index
         /\ json_class_name' = result.json_class_name
         /\ custom_response' = result.response
         /\ errors' = IF result.response = NoneResponse
                        THEN errors \cup {CustomModelError}
                        ELSE errors
  /\ calls' = calls \cup {"get_custom_model_response"}
  /\ pc' = "return"
  /\ UNCHANGED << now, cacheVars, sessionVars, widgetVars, submit, globalVars,
                  image_data, custom_image, gemini_response, prediction, status >>

\* The inputs: every near-pair vector against the two table files, and a few
\* vectors (and a failing inference) against every enumerated table.
InitPipeline ==
  /\ now = 0
  /\ gemini_cache = NoEntry("None")
  /\ custom_cache = NoEntry(NoHandles)
  /\ gemini_inits = 1
  /\ custom_inits = 1
  /\ initialized = "True"
  /\ stored_file = "meal.jpg"
  /\ uploader = "meal.jpg"
  /\ use_gemini = FALSE
  /\ use_custom = TRUE
  /\ submit = TRUE
  /\ pc = "call"
  /\ gemini_model = "GenerativeModel"
  /\ custom_model = "MLModel"
  /\ \/ /\ prediction \in Predictions
        /\ nutrition_data \in {SomeData(t) : t \in TableFiles}
     \/ /\ prediction \in FewPredictions
        /\ nutrition_data \in {SomeData(t) : t \in NutritionTables}
  /\ errors = {}
  /\ calls = {"input_image_details"}
  /\ image_data = "meal.jpg"
  /\ custom_image = "meal.jpg"
  /\ gemini_response = "None"
  /\ max_index = 0 - 1
  /\ json_class_name = ""
  /\ custom_response = UnsetResponse
  /\ status = "Analyzing with Custom Model..."

NextPipeline == CallCustomModel

SpecPipeline == InitPipeline /\ [][NextPipeline]_vars

-----------------------------------------------------------------------------
(* Properties.                                                             *)

Pathways == {"get_gemini_response", "get_custom_model_response"}

\* The submit handler of the current rerun has returned.
HandlerDone == pc = "idle" /\ submit

\* C1: a submit while the uploader holds no file shows "Please upload an
\* image first" and invokes neither get_gemini_response nor
\* get_custom_model_response, whatever was uploaded, removed or submitted
\* before and whatever the two checkboxes say.
C1_NoUploadNoPathway ==
  (submit /\ uploader = "None") =>
     /\ calls \cap Pathways = {}
     /\ HandlerDone => NoImageError \in errors

\* C2 as stated: with both checkboxes off, a submit calls none of
\* input_image_details, get_gemini_response, get_custom_model_response and
\* shows "Please select at least one analysis method"; when no image is
\* held either, "Please upload an image first" is shown instead and is the
\* only error of the rerun.
C2_MissingImageOnlyError ==
  (submit /\ ~use_gemini /\ ~use_custom) =>
     /\ calls = {}
     /\ HandlerDone =>
          IF stored_file = "None"
            THEN errors = {NoImageError}
            ELSE NoMethodError \in errors

\* C2 amended: with both checkboxes off, a submit calls none of the three
\* functions; when an image is held it shows the select-a-method error and
\* not the upload error; when none is held it shows the upload error and
\* not the select-a-method error, and the only other error the rerun can
\* show is the load error of an upload that could not be opened.
C2_MissingImageTakesPrecedence ==
  (submit /\ ~use_gemini /\ ~use_custom) =>
     /\ calls = {}
     /\ HandlerDone =>
          IF stored_file = "None"
            THEN /\ NoImageError \in errors
                 /\ NoMethodError \notin errors
                 /\ errors \subseteq {NoImageError, LoadImageError}
            ELSE /\ NoMethodError \in errors
                 /\ NoImageError \notin errors

\* Both checkboxes off, the upload could not be opened, scan pressed: the
\* load error and the upload error are both on the page.
C2_Witness ==
  /\ HandlerDone
  /\ ~use_gemini
  /\ ~use_custom
  /\ stored_file = "None"
  /\ errors = {LoadImageError, NoImageError}

\* Some record of the loaded table has exactly the predicted name.
NamePresent ==
  \E k \in 1..Len(nutrition_data.items) :
    nutrition_data.items[k].name = json_class_name

Returned == pc = "return" /\ ~prediction.raises

\* C3: when inference succeeded and no record of the table has the
\* predicted class's canonical name, get_custom_model_response returns the
\* not-found result (so neither raises nor returns None); and it returns
\* the not-found result only when no record has exactly that name.
C3_AbsentNameNotFound ==
  Returned =>
     /\ ~NamePresent => custom_response = NotFoundResponse
     /\ custom_response = NotFoundResponse => ~NamePresent

\* The class is pizza, the table holds "pizza" but no "Pizza": not found.
C3_Witness ==
  /\ Returned
  /\ json_class_name = "Pizza"
  /\ \E k \in 1..Len(nutrition_data.items) :
       nutrition_data.items[k].name = "pizza"
  /\ custom_response = NotFoundResponse

\* C4: a submit that passed the two checks runs to "Analysis complete!"
\* and invokes every enabled pathway, on the stored file, whether or not
\* the other pathway failed; a failure of the hosted-model call or of the
\* classifier is caught and shown as a message.
C4_PathwaysIndependent ==
  /\ (HandlerDone /\ "input_image_details" \in calls) =>
        /\ status = "Analysis complete!"
        /\ use_gemini => "get_gemini_response" \in calls
        /\ use_custom => "get_custom_model_response" \in calls
  /\ (pc = "custom" /\ use_gemini) => "get_gemini_response" \in calls
  /\ "get_custom_model_response" \in calls => custom_image = stored_file
  /\ ("get_gemini_response" \in calls /\ gemini_response = "None")
        => GeminiError \in errors
  /\ custom_response = NoneResponse => CustomModelError \in errors

\* Both pathways enabled, both failed, both were invoked, and the handler
\* finished.
C4_Witness ==
  /\ HandlerDone
  /\ use_gemini
  /\ use_custom
  /\ GeminiError \in errors
  /\ CustomModelError \in errors
  /\ Pathways \subseteq calls
  /\ status = "Analysis complete!"

\* C5: main() runs, and a pathway is invoked, only in a rerun whose
\* gemini_model, custom_model and nutrition_data are all not None; a rerun
\* in which a loader returned None stops before main() with no call made.
C5_InitBeforePathways ==
  /\ (pc \in {"main", "submit", "gemini", "custom"} \/ calls # {}) =>
        /\ gemini_model # "None"
        /\ custom_model # "None"
        /\ ~nutrition_data.none
        /\ initialized = "True"
  /\ (pc # "init" /\ (gemini_model = "None" \/ custom_model = "None"
                         \/ nutrition_data.none)) =>
        /\ pc = "stopped"
        /\ calls = {}

\* A pathway was invoked with all three handles loaded.
C5_Witness ==
  /\ "get_custom_model_response" \in calls
  /\ gemini_model # "None"
  /\ custom_model # "None"
  /\ ~nutrition_data.none

\* t is the last whitespace-delimited token of s.
IsLastTokenOf(t, s) ==
  /\ t # ""
  /\ \A k \in 1..Len(t) : ~IsSpace(Char(t, k))
  /\ \E i \in 1..Len(s) :
       /\ i + Len(t) - 1 <= Len(s)
       /\ SubSeq(s, i, i + Len(t) - 1) = t
       /\ i = 1 \/ IsSpace(Char(s, i - 1))
       /\ \A k \in (i + Len(t))..Len(s) : IsSpace(Char(s, k))

\* t is the first whitespace-delimited token of s.
IsFirstTokenOf(t, s) ==
  /\ t # ""
  /\ \A k \in 1..Len(t) : ~IsSpace(Char(t, k))
  /\ \E i \in 1..Len(s) :
       /\ i + Len(t) - 1 <= Len(s)
       /\ SubSeq(s, i, i + Len(t) - 1) = t
       /\ \A k \in 1..(i - 1) : IsSpace(Char(s, k))
       /\ i + Len(t) - 1 = Len(s) \/ IsSpace(Char(s, i + Len(t)))

\* The first record of the table with the predicted name.
FirstNamed ==
  nutrition_data.items[
    CHOOSE k \in 1..Len(nutrition_data.items) :
      /\ nutrition_data.items[k].name = json_class_name
      /\ \A j \in 1..(k - 1) : nutrition_data.items[j].name # json_class_name]

\* C6: when a record has the predicted canonical name, the result carries
\* that name as predicted_food and exactly the five nutrient fields; Total
\* Fat, Saturated Fat, Sodium and Carbohydrates are the last token of the
\* record's display string ("480 mg 20%" gives "20%") and Protein is the
\* first token followed by "g" ("25 g" gives "25g").
C6_FoundRecordShaped ==
  (Returned /\ NamePresent) =>
     LET dv == FirstNamed.dailyValue
         n == custom_response.nutrition
     IN  /\ custom_response.kind = "result"
         /\ custom_response.predicted_food = json_class_name
         /\ DOMAIN n = {"Total Fat", "Saturated Fat", "Sodium",
                        "Carbohydrates", "Protein"}
         /\ IsLastTokenOf(n["Total Fat"], dv.totalFat)
         /\ IsLastTokenOf(n["Saturated Fat"], dv.saturatedFat)
         /\ IsLastTokenOf(n["Sodium"], dv.sodium)
         /\ IsLastTokenOf(n["Carbohydrates"], dv.totalCarbohydrates)
         /\ Len(n["Protein"]) > 1
         /\ Char(n["Protein"], Len(n["Protein"])) = "g"
         /\ IsFirstTokenOf(SubSeq(n["Protein"], 1, Len(n["Protein"]) - 1),
                           dv.protein)
         /\ dv.sodium = "480 mg 20%" => n["Sodium"] = "20%"
         /\ dv.protein = "25 g" => n["Protein"] = "25g"

\* The two examples of the specification, in one result for "Pizza".
C6_Witness ==
  /\ Returned
  /\ NamePresent
  /\ custom_response.kind = "result"
  /\ custom_response.predicted_food = "Pizza"
  /\ FirstNamed.dailyValue.sodium = "480 mg 20%"
  /\ FirstNamed.dailyValue.protein = "25 g"
  /\ custom_response.nutrition["Sodium"] = "20%"
  /\ custom_response.nutrition["Protein"] = "25g"

\* C7: max_index is a position of the maximum of the classifier's vector,
\* and no earlier position holds the maximum: of several equal maxima the
\* lowest index is selected.
C7_ArgmaxFirstMaximum ==
  Returned =>
     LET v == prediction.linear_510
     IN  /\ max_index \in 0..(Len(v) - 1)
         /\ \A j \in 1..Len(v) : v[j] <= v[max_index + 1]
         /\ \A j \in 1..max_index : v[j] < v[max_index + 1]

\* Two positions tie for a positive maximum and the lower one is selected.
C7_Witness ==
  /\ Returned
  /\ LET v == prediction.linear_510
     IN  \E i \in 1..Len(v) : \E j \in (i + 1)..Len(v) :
           /\ v[i] = v[j]
           /\ v[i] > 0
           /\ \A k \in 1..Len(v) : v[k] <= v[i]
           /\ max_index = i - 1

\* C8: classes has exactly 101 labels, and the canonical name of the class
\* at max_index is its label with every underscore turned into a space,
\* the first letter of every word in upper case and every other letter in
\* lower case; "chicken_quesadilla" gives "Chicken Quesadilla".
C8_CanonicalName ==
  /\ Len(classes) = 101
  /\ Returned =>
       LET label == classes[max_index + 1]
       IN  /\ Len(json_class_name) = Len(label)
           /\ \A k \in 1..Len(label) :
                LET c == Char(label, k)
                    d == Char(json_class_name, k)
                IN  IF c = "_"
                      THEN d = " "
                      ELSE IF k = 1 \/ Char(label, k - 1) = "_"
                        THEN IsUpper(d) /\ ToLower(d) = c
                        ELSE IsLower(d) /\ d = c
           /\ label = "chicken_quesadilla" =>
                json_class_name = "Chicken Quesadilla"

\* The class at index 19 resolved to its display name.
C8_Witness ==
  /\ Returned
  /\ classes[max_index + 1] = "chicken_quesadilla"
  /\ json_class_name = "Chicken Quesadilla"

\* C9 as stated: the body of initialize_gemini and the body of
\* load_custom_model each run at most once while the process lives.
C9_OncePerProcess == gemini_inits <= 1 /\ custom_inits <= 1

\* C9 amended: a loader's body runs only when its cache holds no entry
\* younger than the 3600-second ttl, so at most once per ttl; and its
\* cached handle changes only when the body runs.
C9_OncePerTtl ==
  [][ /\ gemini_inits' # gemini_inits =>
           /\ gemini_inits' = gemini_inits + 1
           /\ ~gemini_cache.present \/ now - gemini_cache.at >= GeminiTtl
      /\ custom_inits' # custom_inits =>
           /\ custom_inits' = custom_inits + 1
           /\ ~custom_cache.present \/ now - custom_cache.at >= CustomTtl
      /\ gemini_cache' # gemini_cache => gemini_inits' # gemini_inits
      /\ custom_cache' # custom_cache => custom_inits' # custom_inits
      /\ (pc = "init" /\ gemini_inits' = gemini_inits) =>
           gemini_model' = gemini_cache.value
      /\ (pc = "init" /\ custom_inits' = custom_inits) =>
           /\ custom_model' = custom_cache.value.model
           /\ nutrition_data' = custom_cache.value.data ]_vars

\* Both bodies have run a second time, the ttl having elapsed.
C9_Witness ==
  /\ gemini_inits = 2
  /\ custom_inits = 2
  /\ gemini_cache.at >= GeminiTtl
  /\ custom_cache.at >= CustomTtl

\* C10: a stored file stays as it is through a rerun whose uploader is
\* empty; the stored value changes only in main(), to the uploader's file or
\* to None, and a stored file gives way to None only with the load error;
\* and a submit with an empty uploader and a stored file passes the
\* no-image check and runs the enabled pathways on the stored file.
C10_StoredFileSticky ==
  /\ [][ /\ (uploader = "None" /\ stored_file \in Files) =>
              stored_file' = stored_file
         /\ stored_file' # stored_file =>
              /\ pc = "main"
              /\ \/ stored_file' = uploader /\ uploader # "None"
                 \/ stored_file' = "None"
              /\ (stored_file \in Files /\ stored_file' = "None") =>
                   LoadImageError \in errors' ]_vars
  /\ [](  (HandlerDone /\ uploader = "None" /\ stored_file \in Files
             /\ (use_gemini \/ use_custom)) =>
            /\ NoImageError \notin errors
            /\ image_data = stored_file
            /\ use_gemini => "get_gemini_response" \in calls
            /\ use_custom => /\ "get_custom_model_response" \in calls
                             /\ custom_image = stored_file )

\* The uploader is empty, a file uploaded earlier is still stored, and the
\* submit ran both pathways on it.
C10_Witness ==
  /\ HandlerDone
  /\ uploader = "None"
  /\ stored_file \in Files
  /\ image_data = stored_file
  /\ Pathways \subseteq calls

====
